---- MODULE Spec2Model ----
(***************************************************************************)
(* Model of app.py, the Streamlit "ATS Resume Tailor" form.                *)
(*                                                                         *)
(* Text is modelled as a sequence of Unicode code points (naturals), so    *)
(* that trimming, case folding, tag search and line splitting are computed *)
(* character by character.  Messages that the script builds from literals  *)
(* (warnings, labels) are TLA+ strings.                                    *)
(*                                                                         *)
(* Two specifications:                                                     *)
(*   Spec      one run of the main flow after "Tailor Resume" is clicked   *)
(*   SpecParse the same run from the return of generate_content on, with   *)
(*             longer responses                                            *)
(*   SpecLint  ats_lint applied to a text drawn from a bounded set         *)
(***************************************************************************)
EXTENDS Integers, Sequences, FiniteSets, TLC

VARIABLES
    resume_file,         \* the upload widget: NoFile, or what extraction does
    resume_text_manual,  \* the "paste resume text" text area
    jd_text,             \* the job description text area
    genai,               \* TRUE iff google.generativeai was imported
    api_key,             \* the key resolved from the sidebar / secrets
    pc,                  \* position of the script run
    resume_text,         \* local of the main flow
    content,             \* resp.text or ""
    resume_block,        \* local of the main flow
    report_block,        \* local of the main flow
    warnings,            \* result of ats_lint (sequence of strings)
    shown,               \* what the run has rendered so far, in order
    calls,               \* number of generate_content calls made
    lint_text,           \* SpecLint: argument of ats_lint
    lint_out,            \* SpecLint: value returned by ats_lint
    lint_done            \* SpecLint: TRUE once ats_lint has returned

vars == <<resume_file, resume_text_manual, jd_text, genai, api_key, pc,
          resume_text, content, resume_block, report_block, warnings,
          shown, calls, lint_text, lint_out, lint_done>>

pipeVars == <<resume_file, resume_text_manual, jd_text, genai, api_key, pc,
              resume_text, content, resume_block, report_block, warnings,
              shown, calls>>

lintVars == <<lint_text, lint_out, lint_done>>

-----------------------------------------------------------------------------
(* Bounds of the model                                                     *)

\* longest model response in Spec, counted in tokens of ResponseTokens
MaxCallTokens == 2

\* longest model response in SpecParse, counted in tokens of ResponseTokens
MaxTokens == 4

\* longest text given to ats_lint in SpecLint, counted in tokens of LintTokens
MaxLintTokens == 4

-----------------------------------------------------------------------------
(* Characters and strings                                                  *)

Min(S) == CHOOSE x \in S : \A y \in S : x <= y

Max(S) == CHOOSE x \in S : \A y \in S : x >= y

\* str.isspace() of a single character
IsSpace(c) ==
    \/ c \in 9..13
    \/ c \in 28..32
    \/ c \in {133, 160, 5760, 8232, 8233, 8239, 8287, 12288}
    \/ c \in 8192..8202

\* str.strip(): drop leading and trailing whitespace
Strip(s) ==
    LET keep == {i \in 1..Len(s) : ~IsSpace(s[i])}
    IN  IF keep = {} THEN <<>> ELSE SubSeq(s, Min(keep), Max(keep))

\* Case folding used by re.IGNORECASE on str patterns: simple lower case,
\* plus the extra equivalences of the letters s, k and i.
Lower(c) ==
    IF c \in 65..90 THEN c + 32
    ELSE IF c = 383 THEN 115
    ELSE IF c = 8490 THEN 107
    ELSE IF c \in {304, 305} THEN 105
    ELSE c

\* the literal pat matches s at position i, ignoring case
MatchesAt(s, i, pat) ==
    /\ i >= 1
    /\ i + Len(pat) - 1 <= Len(s)
    /\ \A k \in 1..Len(pat) : Lower(s[i + k - 1]) = Lower(pat[k])

\* re.search(pat, s, re.IGNORECASE) is not None, for a literal pat
Contains(s, pat) == \E i \in 1..Len(s) : MatchesAt(s, i, pat)

RECURSIVE Flatten(_)
\* "".join(parts)
Flatten(parts) ==
    IF parts = <<>> THEN <<>> ELSE Head(parts) \o Flatten(Tail(parts))

-----------------------------------------------------------------------------
(* 4) Parse response                                                       *)

OpenResume == <<60, 82, 69, 83, 85, 77, 69, 62>>

CloseResume == <<60, 47, 82, 69, 83, 85, 77, 69, 62>>

OpenReport == <<60, 77, 65, 84, 67, 72, 95, 82, 69, 80, 79, 82, 84, 62>>

CloseReport == <<60, 47, 77, 65, 84, 67, 72, 95, 82, 69, 80, 79, 82, 84, 62>>

NoMatch == [found |-> FALSE, group |-> <<>>]

\* variant of ReSearch: a greedy group, ending at the last closing tag
ReSearchGreedy(open, close, s) ==
    LET opens  == {i \in 1..Len(s) : MatchesAt(s, i, open)}
        closes == {j \in 1..Len(s) : MatchesAt(s, j, close)}
        starts == {i \in opens : \E j \in closes : j >= i + Len(open)}
    IN  IF starts = {} THEN NoMatch
        ELSE LET i == Min(starts)
                 j == Max({k \in closes : k >= i + Len(open)})
             IN  [found |-> TRUE, group |-> SubSeq(s, i + Len(open), j - 1)]

\* re.search(open(.*?)close, s, flags=re.DOTALL | re.IGNORECASE): the leftmost
\* position where open matches and close matches somewhere after it; the lazy
\* group then ends at the nearest such close.  DOTALL: the group may span
\* any character, line breaks included.
ReSearch(open, close, s) ==
    LET opens  == {i \in 1..Len(s) : MatchesAt(s, i, open)}
        closes == {j \in 1..Len(s) : MatchesAt(s, j, close)}
        starts == {i \in opens : \E j \in closes : j >= i + Len(open)}
    IN  IF starts = {} THEN NoMatch
        ELSE LET i == Min(starts)
                 j == Min({k \in closes : k >= i + Len(open)})
             IN  [found |-> TRUE, group |-> SubSeq(s, i + Len(open), j - 1)]

\* variant of ParseResponse: without line 165, the fallback to the response
ParseResponseNoFallback(c) ==
    LET m1 == ReSearch(OpenResume, CloseResume, c)
        m2 == ReSearch(OpenReport, CloseReport, c)
    IN  [resume_block |-> IF m1.found THEN Strip(m1.group) ELSE <<>>,
         report_block |-> IF m2.found THEN Strip(m2.group) ELSE <<>>]

\* variant of ParseResponse: the fallback is the response, not trimmed
ParseResponseRawFallback(c) ==
    LET m1 == ReSearch(OpenResume, CloseResume, c)
        m2 == ReSearch(OpenReport, CloseReport, c)
        rb == IF m1.found THEN Strip(m1.group) ELSE <<>>
    IN  [resume_block |-> IF rb = <<>> THEN c ELSE rb,
         report_block |-> IF m2.found THEN Strip(m2.group) ELSE <<>>]

\* lines 156-165: the two blocks the main flow extracts from content
ParseResponse(c) ==
    LET m1 == ReSearch(OpenResume, CloseResume, c)
        m2 == ReSearch(OpenReport, CloseReport, c)
        rb == IF m1.found THEN Strip(m1.group) ELSE <<>>
    IN  [resume_block |-> IF rb = <<>> THEN Strip(c) ELSE rb,
         report_block |-> IF m2.found THEN Strip(m2.group) ELSE <<>>]

-----------------------------------------------------------------------------
(* ats_lint                                                                *)

LongLine == 160

\* the characters at which str.splitlines() breaks a line
IsLineBreak(c) == c \in {10, 11, 12, 13, 28, 29, 30, 133, 8232, 8233}

\* position i holds the last character of a line boundary ("\r\n" is one)
EndsBreak(s, i) ==
    /\ IsLineBreak(s[i])
    /\ ~(s[i] = 13 /\ i < Len(s) /\ s[i + 1] = 10)

\* str.splitlines(): the lines of s without their boundaries; no empty last line
SplitLines(s) ==
    LET starts == {p \in 1..Len(s) : p = 1 \/ EndsBreak(s, p - 1)}
        n      == Cardinality(starts)
        nth(k) == CHOOSE p \in starts : Cardinality({q \in starts : q < p}) = k - 1
        end(p) == Min({q \in p..Len(s) : IsLineBreak(s[q])} \cup {Len(s) + 1})
    IN  [k \in 1..n |-> SubSeq(s, nth(k), end(nth(k)) - 1)]

\* variant of IsLong: len(ln) >= 160
IsLongOffByOne(ln) == Len(ln) >= LongLine

\* line 52: len(ln) > 160
IsLong(ln) == Len(ln) > LongLine

\* variant of HasNonAscii: the class [^\x20-\x7E]
HasNonPrintable(text) == \E i \in 1..Len(text) : text[i] \notin 32..126

\* line 55: re.search(r"[^\x00-\x7F]", text)
HasNonAscii(text) == \E i \in 1..Len(text) : text[i] \notin 0..127

skills == <<115, 107, 105, 108, 108, 115>>

experience == <<101, 120, 112, 101, 114, 105, 101, 110, 99, 101>>

education == <<101, 100, 117, 99, 97, 116, 105, 111, 110>>

\* variant of HasHeading: without the (?i) flag
HasHeadingCaseSensitive(text) ==
    LET has(pat) == \E i \in 1..Len(text) :
                        /\ i + Len(pat) - 1 <= Len(text)
                        /\ SubSeq(text, i, i + Len(pat) - 1) = pat
    IN  has(skills) \/ has(experience) \/ has(education)

\* line 57: re.search(r"(?i)skills|experience|education", text)
HasHeading(text) ==
    Contains(text, skills) \/ Contains(text, experience) \/ Contains(text, education)

LongLinesMsg(n) ==
    ToString(n) \o " lines exceed ~160 chars; consider concise bullets."

NonAsciiMsg == "Non-ASCII characters found; stick to plain text where possible."

MissingHeadingsMsg == "Missing standard headings like Skills, Experience, Education."

\* lines 48-59
ats_lint(text) ==
    LET long_lines == SelectSeq(SplitLines(text), IsLong)
    IN  (IF long_lines # <<>> THEN <<LongLinesMsg(Len(long_lines))>> ELSE <<>>)
        \o (IF HasNonAscii(text) THEN <<NonAsciiMsg>> ELSE <<>>)
        \o (IF ~HasHeading(text) THEN <<MissingHeadingsMsg>> ELSE <<>>)

-----------------------------------------------------------------------------
(* Inputs of one run                                                       *)

\* the tokens model responses are built from: <RESUME>, </resume>,
\* <MATCH_REPORT>, </match_report>, " ", "\n", "a", "SKILLS"
ResponseTokens ==
    { OpenResume,
      <<60, 47, 114, 101, 115, 117, 109, 101, 62>>,
      OpenReport,
      <<60, 47, 109, 97, 116, 99, 104, 95, 114, 101, 112, 111, 114, 116, 62>>,
      <<32>>, <<10>>, <<97>>,
      <<83, 75, 73, 76, 76, 83>> }

TokenSeqs(tokens, max) == UNION {[1..n -> tokens] : n \in 0..max}

\* file_uploader: nothing uploaded
NoFile == [present |-> FALSE, raises |-> FALSE, text |-> <<>>]

\* an upload, with what extract_resume_text does on it: raise, or return text
\* ("", " " or "r")
Uploads ==
    { [present |-> TRUE, raises |-> TRUE, text |-> <<>>] }
    \cup { [present |-> TRUE, raises |-> FALSE, text |-> t] :
             t \in {<<>>, <<32>>, <<114>>} }

\* "", " ", " m"
ManualTexts == {<<>>, <<32>>, <<32, 109>>}

\* "", "\n", "j"
JobTexts == {<<>>, <<10>>, <<106>>}

\* "", "k"
ApiKeys == {<<>>, <<107>>}

-----------------------------------------------------------------------------
(* What the run renders                                                    *)

Elem(kind, msg, body) == [kind |-> kind, msg |-> msg, body |-> body]

EmDash == <<8212>>

RECURSIVE JoinLines(_)
\* "\n- ".join(ws)
JoinLines(ws) ==
    IF ws = <<>> THEN ""
    ELSE IF Len(ws) = 1 THEN ws[1]
    ELSE ws[1] \o "\n- " \o JoinLines(Tail(ws))

\* variant of ReportShown: report_block written as it is
ReportShownRaw(rb) == rb

\* line 177: report_block if report_block else "-" (an em dash)
ReportShown(rb) == IF rb # <<>> THEN rb ELSE EmDash

-----------------------------------------------------------------------------
(* Main flow, lines 87-193                                                 *)

Init ==
    /\ resume_file \in {NoFile} \cup Uploads
    /\ resume_text_manual \in ManualTexts
    /\ jd_text \in JobTexts
    /\ genai \in BOOLEAN
    /\ api_key \in ApiKeys
    /\ pc = "start"
    /\ resume_text = <<>>
    /\ content = <<>>
    /\ resume_block = <<>>
    /\ report_block = <<>>
    /\ warnings = <<>>
    /\ shown = <<>>
    /\ calls = 0
    /\ lint_text = <<>>
    /\ lint_out = <<>>
    /\ lint_done = FALSE

\* variant of ResolveResume: the pasted text first, the upload second
ResolveResumeUploadLast(f, manual) ==
    IF Strip(manual) # <<>> THEN Strip(manual)
    ELSE IF f.present /\ ~f.raises THEN f.text ELSE <<>>

\* lines 89-96: the upload's text if there is any, else the pasted text
ResolveResume(f, manual) ==
    LET extracted == IF f.present /\ ~f.raises THEN f.text ELSE <<>>
    IN  IF extracted = <<>> /\ Strip(manual) # <<>> THEN Strip(manual)
        ELSE extracted

\* 1) Get resume text
GetResumeText ==
    /\ pc = "start"
    /\ resume_text' = ResolveResume(resume_file, resume_text_manual)
    /\ shown' = IF resume_file.present /\ resume_file.raises
                THEN Append(shown, Elem("error", "Could not read resume: ", <<>>))
                ELSE shown
    /\ pc' = "check"
    /\ UNCHANGED <<resume_file, resume_text_manual, jd_text, genai, api_key,
                   content, resume_block, report_block, warnings, calls>>
    /\ UNCHANGED lintVars

Stop(kind, msg) ==
    /\ shown' = Append(shown, Elem(kind, msg, <<>>))
    /\ pc' = "stopped"
    /\ UNCHANGED <<resume_file, resume_text_manual, jd_text, genai, api_key,
                   resume_text, content, resume_block, report_block, warnings,
                   calls>>
    /\ UNCHANGED lintVars

\* variant of CheckInputs: without the api_key check of lines 108-110
CheckInputsNoKeyCheck ==
    /\ pc = "check"
    /\ \/ /\ resume_text = <<>>
          /\ Stop("warning", "Please upload a resume or paste your resume text.")
       \/ /\ resume_text # <<>>
          /\ Strip(jd_text) = <<>>
          /\ Stop("warning", "Please paste the job description.")
       \/ /\ resume_text # <<>>
          /\ Strip(jd_text) # <<>>
          /\ ~genai
          /\ Stop("error", "google-generativeai not installed.")
       \/ /\ resume_text # <<>>
          /\ Strip(jd_text) # <<>>
          /\ genai
          /\ pc' = "call"
          /\ UNCHANGED <<resume_file, resume_text_manual, jd_text, genai,
                         api_key, resume_text, content, resume_block,
                         report_block, warnings, shown, calls>>
          /\ UNCHANGED lintVars

\* lines 98-110: the four checks, each ending the run with st.stop()
CheckInputs ==
    /\ pc = "check"
    /\ \/ /\ resume_text = <<>>
          /\ Stop("warning", "Please upload a resume or paste your resume text.")
       \/ /\ resume_text # <<>>
          /\ Strip(jd_text) = <<>>
          /\ Stop("warning", "Please paste the job description.")
       \/ /\ resume_text # <<>>
          /\ Strip(jd_text) # <<>>
          /\ ~genai
          /\ Stop("error", "google-generativeai not installed.")
       \/ /\ resume_text # <<>>
          /\ Strip(jd_text) # <<>>
          /\ genai
          /\ api_key = <<>>
          /\ Stop("info", "Add your GEMINI_API_KEY in the sidebar or Streamlit Secrets.")
       \/ /\ resume_text # <<>>
          /\ Strip(jd_text) # <<>>
          /\ genai
          /\ api_key # <<>>
          /\ pc' = "call"
          /\ UNCHANGED <<resume_file, resume_text_manual, jd_text, genai,
                         api_key, resume_text, content, resume_block,
                         report_block, warnings, shown, calls>>
          /\ UNCHANGED lintVars

\* 2), 3): configure, build the prompt, model.generate_content; the call
\* returns a text (resp.text or "") or raises
CallModel ==
    /\ pc = "call"
    /\ calls' = calls + 1
    /\ \/ /\ \E ts \in TokenSeqs(ResponseTokens, MaxCallTokens) :
                content' = Flatten(ts)
          /\ pc' = "parse"
          /\ shown' = shown
       \/ /\ content' = content
          /\ pc' = "raised"
          /\ shown' = Append(shown, Elem("exception", "", <<>>))
    /\ UNCHANGED <<resume_file, resume_text_manual, jd_text, genai, api_key,
                   resume_text, resume_block, report_block, warnings>>
    /\ UNCHANGED lintVars

\* 4) Parse response
Parse ==
    /\ pc = "parse"
    /\ LET parsed == ParseResponse(content)
       IN  /\ resume_block' = parsed.resume_block
           /\ report_block' = parsed.report_block
    /\ pc' = "lint"
    /\ UNCHANGED <<resume_file, resume_text_manual, jd_text, genai, api_key,
                   resume_text, content, warnings, shown, calls>>
    /\ UNCHANGED lintVars

\* 5) ATS lint, 6) Show results, 7) Downloads
LintAndShow ==
    /\ pc = "lint"
    /\ warnings' = ats_lint(resume_block)
    /\ shown' =
         shown
         \o (IF warnings' # <<>>
             THEN <<Elem("warning",
                         "ATS Lint Suggestions:\n- " \o JoinLines(warnings'),
                         <<>>)>>
             ELSE <<>>)
         \o << Elem("subheader", "Tailored Resume (ATS-friendly)", <<>>),
               Elem("code", "", resume_block),
               Elem("subheader", "Match Report", <<>>),
               Elem("write", "", ReportShown(report_block)),
               Elem("download_button", "ATS_Resume.txt", resume_block),
               Elem("download_button", "ATS_Resume.docx", resume_block) >>
    /\ pc' = "done"
    /\ UNCHANGED <<resume_file, resume_text_manual, jd_text, genai, api_key,
                   resume_text, content, resume_block, report_block, calls>>
    /\ UNCHANGED lintVars

Next == GetResumeText \/ CheckInputs \/ CallModel \/ Parse \/ LintAndShow

Spec == Init /\ [][Next]_vars

-----------------------------------------------------------------------------
(* The run from the return of generate_content on                          *)

\* a run with resume "r" uploaded, job description "j" and key "k", at the
\* point where generate_content has returned
InitParse ==
    /\ resume_file = [present |-> TRUE, raises |-> FALSE, text |-> <<114>>]
    /\ resume_text_manual = <<>>
    /\ jd_text = <<106>>
    /\ genai = TRUE
    /\ api_key = <<107>>
    /\ pc = "parse"
    /\ resume_text = <<114>>
    /\ \E ts \in TokenSeqs(ResponseTokens, MaxTokens) : content = Flatten(ts)
    /\ resume_block = <<>>
    /\ report_block = <<>>
    /\ warnings = <<>>
    /\ shown = <<>>
    /\ calls = 1
    /\ lint_text = <<>>
    /\ lint_out = <<>>
    /\ lint_done = FALSE

NextParse == Parse \/ LintAndShow

SpecParse == InitParse /\ [][NextParse]_vars

-----------------------------------------------------------------------------
(* ats_lint on its own                                                     *)

\* a line of exactly 160 "x"
Line160 == [i \in 1..LongLine |-> 120]

\* the tokens lint texts are built from: 160 "x", "x", "\n", "\r", "e" with an
\* acute accent, tab, "experience", "SKILLS"
LintTokens ==
    { Line160, <<120>>, <<10>>, <<13>>, <<233>>, <<9>>, experience,
      <<83, 75, 73, 76, 76, 83>> }

InitLint ==
    /\ resume_file = NoFile
    /\ resume_text_manual = <<>>
    /\ jd_text = <<>>
    /\ genai = FALSE
    /\ api_key = <<>>
    /\ pc = "idle"
    /\ resume_text = <<>>
    /\ content = <<>>
    /\ resume_block = <<>>
    /\ report_block = <<>>
    /\ warnings = <<>>
    /\ shown = <<>>
    /\ calls = 0
    /\ \E ts \in TokenSeqs(LintTokens, MaxLintTokens) : lint_text = Flatten(ts)
    /\ lint_out = <<>>
    /\ lint_done = FALSE

CallLint ==
    /\ ~lint_done
    /\ lint_out' = ats_lint(lint_text)
    /\ lint_done' = TRUE
    /\ UNCHANGED lint_text
    /\ UNCHANGED pipeVars

NextLint == CallLint

SpecLint == InitLint /\ [][NextLint]_vars

-----------------------------------------------------------------------------
(* Section Splitter, as the specification describes it (section 4.2);      *)
(* app.py has no such step                                                 *)

\* SUMMARY, SKILLS, EXPERIENCE, EDUCATION, CERTIFICATIONS, PROJECTS
CanonicalSections ==
    << <<83, 85, 77, 77, 65, 82, 89>>,
       <<83, 75, 73, 76, 76, 83>>,
       <<69, 88, 80, 69, 82, 73, 69, 78, 67, 69>>,
       <<69, 68, 85, 67, 65, 84, 73, 79, 78>>,
       <<67, 69, 82, 84, 73, 70, 73, 67, 65, 84, 73, 79, 78, 83>>,
       <<80, 82, 79, 74, 69, 67, 84, 83>> >>

\* position p starts a line of s
LineStartsAt(s, p) == p = 1 \/ s[p - 1] = 10

\* the line starting at p is made of one or more upper-case letters and spaces
HeadingShapeAt(s, p) ==
    LET e == Min({q \in p..Len(s) : s[q] = 10} \cup {Len(s) + 1})
    IN  /\ e > p
        /\ \A q \in p..(e - 1) : s[q] \in 65..90 \/ s[q] = 32

\* the trimmed text between the first line that is exactly name and the next
\* heading-shaped line (or the end); <<>> if there is no such line
SectionBody(s, name) ==
    LET heads == {p \in 1..Len(s) :
                    /\ LineStartsAt(s, p)
                    /\ p + Len(name) <= Len(s)
                    /\ SubSeq(s, p, p + Len(name) - 1) = name
                    /\ s[p + Len(name)] = 10}
    IN  IF heads = {} THEN <<>>
        ELSE LET b    == Min(heads) + Len(name) + 1
                 ends == {q \in b..Len(s) : LineStartsAt(s, q) /\ HeadingShapeAt(s, q)}
                 e    == Min(ends \cup {Len(s) + 1})
             IN  Strip(SubSeq(s, b, e - 1))

\* the SectionMap: the non-empty sections, in canonical order
SectionSplit(s) ==
    LET present(k) == SectionBody(s, CanonicalSections[k]) # <<>>
        ks   == {k \in 1..Len(CanonicalSections) : present(k)}
        nth(i) == CHOOSE k \in ks : Cardinality({m \in ks : m < k}) = i - 1
    IN  [i \in 1..Cardinality(ks) |->
            [name |-> CanonicalSections[nth(i)],
             body |-> SectionBody(s, CanonicalSections[nth(i)])]]

-----------------------------------------------------------------------------
(* Properties                                                              *)

Range(f) == {f[i] : i \in DOMAIN f}

\* the run is past step 4
Parsed == pc \in {"lint", "done"}

\* a and b are the same character up to the case of an ASCII letter
SameLetter(a, b) ==
    \/ a = b
    \/ a \in 65..90 /\ b = a + 32
    \/ b \in 65..90 /\ a = b + 32

\* the tag is written at position i of s, in any letter case
TagAt(s, i, tag) ==
    /\ i + Len(tag) - 1 <= Len(s)
    /\ \A k \in 1..Len(tag) : SameLetter(s[i + k - 1], tag[k])

\* s holds an opening tag with a closing tag after it
HasPair(s, open, close) ==
    \E i \in 1..Len(s) :
        /\ TagAt(s, i, open)
        /\ \E j \in (i + Len(open))..Len(s) : TagAt(s, j, close)

\* the text between the first opening tag and the first closing tag after it
Enclosed(s, open, close) ==
    LET i == CHOOSE a \in 1..Len(s) :
                 /\ TagAt(s, a, open)
                 /\ \A b \in 1..(a - 1) : ~TagAt(s, b, open)
        j == CHOOSE a \in (i + Len(open))..Len(s) :
                 /\ TagAt(s, a, close)
                 /\ \A b \in (i + Len(open))..(a - 1) : ~TagAt(s, b, close)
    IN  SubSeq(s, i + Len(open), j - 1)

\* C1 (as claimed): once parsed, a response with a well-formed
\* <RESUME>X</RESUME> pair has resume_block = trim(X), X blank included.
C1_TagExtraction_AsClaimed ==
    (Parsed /\ HasPair(content, OpenResume, CloseResume))
        => resume_block = Strip(Enclosed(content, OpenResume, CloseResume))

\* C1 (amended): once parsed, a response with a well-formed <RESUME>X</RESUME>
\* pair has resume_block = trim(X) when trim(X) is not empty, and
\* resume_block = trim(whole response) when X is empty or only whitespace.
C1_TagExtraction ==
    (Parsed /\ HasPair(content, OpenResume, CloseResume))
        => LET x == Strip(Enclosed(content, OpenResume, CloseResume))
           IN  resume_block = IF x # <<>> THEN x ELSE Strip(content)

\* C1 witness: parsed, the tags enclose text with whitespace around it, and
\* the block is that text trimmed
C1_Witness ==
    /\ Parsed
    /\ HasPair(content, OpenResume, CloseResume)
    /\ LET x == Enclosed(content, OpenResume, CloseResume)
       IN  Strip(x) # <<>> /\ Strip(x) # x /\ resume_block = Strip(x)

\* C2 (as claimed): once parsed, every response of length > 0 (whitespace-only
\* ones included) gives a non-empty resume_block.
C2_NeverEmpty_AsClaimed ==
    (Parsed /\ content # <<>>) => resume_block # <<>>

\* C2 (amended): once parsed, every response that is not empty after trimming
\* gives a non-empty resume_block.
C2_NeverEmpty ==
    (Parsed /\ Strip(content) # <<>>) => resume_block # <<>>

\* C2 witness: parsed, the response is RESUME tags enclosing only whitespace,
\* and resume_block is not empty
C2_Witness ==
    /\ Parsed
    /\ HasPair(content, OpenResume, CloseResume)
    /\ Strip(Enclosed(content, OpenResume, CloseResume)) = <<>>
    /\ resume_block # <<>>

\* C3: once parsed, a response in which the <RESUME>...</RESUME> pattern does
\* not match gives resume_block = trim(whole response), any MATCH_REPORT block
\* included; the run goes on to lint and display and never ends in an error.
C3_Fallback ==
    /\ pc \in {"parse", "lint", "done"}
    /\ (Parsed /\ ~HasPair(content, OpenResume, CloseResume))
           => resume_block = Strip(content)

\* C3 witness: parsed, no RESUME pair but a MATCH_REPORT pair, whitespace
\* around the response, and the block is the trimmed response
C3_Witness ==
    /\ Parsed
    /\ ~HasPair(content, OpenResume, CloseResume)
    /\ HasPair(content, OpenReport, CloseReport)
    /\ Strip(content) # content
    /\ resume_block = Strip(content)

\* the body of the element written under the "Match Report" subheader
ReportWritten ==
    LET ws == SelectSeq(shown, LAMBDA e : e.kind = "write") IN ws[1].body

\* C4: once parsed, a response in which the <MATCH_REPORT>...</MATCH_REPORT>
\* pattern does not match has report_block = "", with or without a RESUME
\* match; and when the run is done with report_block = "", what is written
\* under "Match Report" is the em dash.
C4_MissingReport ==
    /\ (Parsed /\ ~HasPair(content, OpenReport, CloseReport))
           => report_block = <<>>
    /\ (pc = "done" /\ report_block = <<>>) => ReportWritten = EmDash
    /\ (pc = "done" /\ report_block # <<>>) => ReportWritten = report_block

\* C4 witness: done, a RESUME pair but no MATCH_REPORT pair, the em dash shown
C4_Witness ==
    /\ pc = "done"
    /\ HasPair(content, OpenResume, CloseResume)
    /\ ~HasPair(content, OpenReport, CloseReport)
    /\ ReportWritten = EmDash

\* what must hold for the run to reach generate_content
Preconditions ==
    /\ resume_text # <<>>
    /\ Strip(jd_text) # <<>>
    /\ genai
    /\ api_key # <<>>

\* C5: generate_content is called only when the resolved resume text is not
\* empty, the job description is not blank, the provider loaded and the key is
\* not empty; when one of these fails the run is stopped with a message as its
\* last rendered element, and nothing is called, parsed, linted or shown.
C5_HaltBeforeCall ==
    /\ calls > 0 => Preconditions
    /\ (pc \notin {"start", "check"} /\ ~Preconditions) =>
          /\ pc = "stopped"
          /\ calls = 0
          /\ shown # <<>>
          /\ shown[Len(shown)].kind \in {"warning", "error", "info"}
          /\ \A i \in 1..Len(shown) :
                 shown[i].kind \notin {"code", "write", "subheader", "download_button"}
          /\ content = <<>> /\ resume_block = <<>> /\ report_block = <<>>
          /\ warnings = <<>>
    /\ pc = "stopped" => ~Preconditions

\* C5 witness: resume and job description given, provider loaded, no key:
\* the run stopped without a call
C5_Witness ==
    /\ pc = "stopped"
    /\ resume_text # <<>> /\ Strip(jd_text) # <<>> /\ genai /\ api_key = <<>>
    /\ calls = 0

MissingResumeMsg == "Please upload a resume or paste your resume text."

\* C9: when reading the upload raises, an error is shown and the run goes on
\* with the pasted text if that is not blank, and is not stopped when the other
\* preconditions hold; it stops with the missing-resume warning exactly when
\* the pasted text is blank too.  The pasted text is used only when the upload
\* is absent, failed or gave empty text.
C9_ExtractionFailureLocal ==
    /\ (pc # "start" /\ resume_file.raises) =>
          /\ shown # <<>> /\ shown[1].kind = "error"
          /\ resume_text = Strip(resume_text_manual)
          /\ (Strip(resume_text_manual) # <<>> /\ Strip(jd_text) # <<>>
                /\ genai /\ api_key # <<>>) => pc # "stopped"
          /\ (pc \notin {"start", "check"} /\ Strip(resume_text_manual) = <<>>) =>
                /\ pc = "stopped"
                /\ shown[Len(shown)].msg = MissingResumeMsg
          /\ (pc = "stopped" /\ shown[Len(shown)].msg = MissingResumeMsg) =>
                Strip(resume_text_manual) = <<>>
    /\ (pc # "start" /\ resume_file.present /\ ~resume_file.raises
          /\ resume_file.text # <<>>) => resume_text = resume_file.text
    /\ (pc # "start" /\ ~resume_file.present) =>
          resume_text = Strip(resume_text_manual)

\* C9 witness: the upload could not be read, text was pasted, and the model
\* was called
C9_Witness ==
    /\ resume_file.raises
    /\ Strip(resume_text_manual) # <<>>
    /\ resume_text = Strip(resume_text_manual)
    /\ calls = 1

\* the sections the run has rendered, in order
ShownSections ==
    LET es == SelectSeq(shown, LAMBDA e : e.kind = "section")
    IN  [i \in 1..Len(es) |-> [name |-> es[i].msg, body |-> es[i].body]]

\* C10: when the run is done it has derived and rendered the SectionMap of
\* resume_block: the non-empty canonical sections, in canonical order.
C10_SectionMapDerived ==
    pc = "done" => ShownSections = SectionSplit(resume_block)

-----------------------------------------------------------------------------
(* Properties of ats_lint                                                  *)

\* the first positions of the lines of s that are longer than LongLine
LongLineStarts(s) ==
    {a \in 1..(Len(s) - LongLine) :
        /\ a = 1 \/ IsLineBreak(s[a - 1])
        /\ \A k \in 0..LongLine : ~IsLineBreak(s[a + k])}

\* s holds word, in any letter case
Occurs(s, word) == \E i \in 1..Len(s) : TagAt(s, i, word)

\* C6 (as claimed): the non-ASCII warning is returned iff the text holds a
\* character outside the printable ASCII range 0x20..0x7E.
C6_NonAscii_AsClaimed ==
    lint_done =>
        (NonAsciiMsg \in Range(lint_out)
            <=> \E i \in 1..Len(lint_text) : lint_text[i] \notin 32..126)

\* C6 (amended): the non-ASCII warning is returned iff the text holds a
\* character above 0x7F; ASCII control characters do not trigger it.
C6_NonAscii ==
    lint_done =>
        (NonAsciiMsg \in Range(lint_out)
            <=> \E i \in 1..Len(lint_text) : lint_text[i] > 127)

\* C6 witness: a text with an accented e got the warning
C6_Witness ==
    /\ lint_done
    /\ \E i \in 1..Len(lint_text) : lint_text[i] = 233
    /\ NonAsciiMsg \in Range(lint_out)

\* C7: the long-line warning is returned iff some line is longer than 160; it
\* comes first and carries the number of such lines; a text with one such line,
\* otherwise printable ASCII and holding "experience", gets that warning only.
C7_LongLine ==
    lint_done =>
        LET n == Cardinality(LongLineStarts(lint_text))
        IN  /\ n = 0 => \A m \in 1..(Len(lint_text) \div LongLine + 1) :
                            LongLinesMsg(m) \notin Range(lint_out)
            /\ n > 0 => lint_out # <<>> /\ lint_out[1] = LongLinesMsg(n)
            /\ ( /\ n = 1
                 /\ \A i \in 1..Len(lint_text) :
                        lint_text[i] \in 32..126 \/ lint_text[i] = 10
                 /\ Occurs(lint_text, experience) )
               => lint_out = <<LongLinesMsg(1)>>

\* C7 witness: a 161-character line, a line break and "experience" gave exactly
\* the long-line warning
C7_Witness ==
    /\ lint_done
    /\ Len(lint_text) = LongLine + 1 + 1 + Len(experience)
    /\ Cardinality(LongLineStarts(lint_text)) = 1
    /\ \A i \in 1..Len(lint_text) : lint_text[i] \in 32..126 \/ lint_text[i] = 10
    /\ Occurs(lint_text, experience)
    /\ lint_out = <<LongLinesMsg(1)>>

\* C8: what ats_lint returns is the long-line warning, the non-ASCII warning
\* and the missing-headings warning, each present or not, in that order (so at
\* most three entries); the missing-headings warning is present iff none of
\* "skills", "experience", "education" occurs in the text in any letter case.
C8_OutputShape ==
    lint_done =>
        \E b1, b2 \in BOOLEAN, n \in 1..(Len(lint_text) \div LongLine + 1) :
            lint_out =
                (IF b1 THEN <<LongLinesMsg(n)>> ELSE <<>>)
                \o (IF b2 THEN <<NonAsciiMsg>> ELSE <<>>)
                \o (IF \/ Occurs(lint_text, skills)
                       \/ Occurs(lint_text, experience)
                       \/ Occurs(lint_text, education)
                    THEN <<>> ELSE <<MissingHeadingsMsg>>)

\* C8 witness: all three warnings returned, in order
C8_Witness ==
    /\ lint_done
    /\ Len(lint_out) = 3
    /\ lint_out[2] = NonAsciiMsg
    /\ lint_out[3] = MissingHeadingsMsg

====
